---- MODULE Spec2Model ----
(***************************************************************************)
(* use-delay-follow-state: the hooks useDelayedState and useFollowState of *)
(* src/src/index.ts, as state machines.                                    *)
(*                                                                         *)
(* A component instance owns the React state slots (the rendered value and *)
(* the updates handed to setState and not yet rendered), the ref holding   *)
(* the timer handle, and the host's table of live timers.  One action per  *)
(* function the hooks return, one for each statement of the timer callback *)
(* and of setStateAndFollow (React may render the component inside a       *)
(* setState that is not called from one of its own handlers), one for a    *)
(* render, one for the effect cleanup (unmount) and one for the passing of *)
(* time.  Spec is a component using useDelayedState, FollowSpec one using  *)
(* useFollowState.                                                         *)
(***************************************************************************)
EXTENDS Integers, Sequences, FiniteSets

\* ------------------------------------------------------------------ bounds
MaxValue == 1
MaxDelay == 1
MaxTimers == 3
\* The longest a due timer waits for the host to run its callback.
MaxLate == 1

Values == 0..MaxValue
\* The optional argument delayMS: <<>> is "absent" (undefined), <<d>> is d ms.
DelayArgs == {<<>>} \cup {<<d>> : d \in 0..MaxDelay}

\* A falsy timeoutRef.current (undefined after useRef(), null after a cancel).
NoTimer == 0

VARIABLES
    state,          \* useDelayedState: the rendered state (followState of useFollowState)
    stateQueue,     \* useDelayedState: the update handed to setState and not yet rendered
    timeoutRef,     \* timeoutRef.current: NoTimer or a timer handle
    timers,         \* the host's live timers: [id, newState, left], left the time to run
    pc,             \* where the function that called setState outside React stands
    nextId,         \* the handle the next setTimeout returns
    mounted,        \* FALSE once the effect cleanup has run
    immediate,      \* useFollowState: the rendered state
    immediateQueue, \* useFollowState: the update handed to its setState, not yet rendered
    retained,       \* useFollowState: the [state, followState] an earlier render closed over
    frame,          \* useFollowState: the arguments of a setStateAndFollow inside line 70
    lastEv,         \* history: the last call, timer callback or unmount
    arm,            \* history: the pending request, as it was made
    torn,           \* history: the value and the next handle when the cleanup ran
    banned,         \* history: values of superseded requests, not requested since
    frozen,         \* history: the value a cancel() left in place
    requested       \* history: the value of the last setStateAndFollow, or the initial one

delayedVars == <<state, stateQueue, timeoutRef, timers, nextId, mounted>>
followVars == <<immediate, immediateQueue, retained, frame>>
histVars == <<lastEv, arm, torn, banned, frozen, requested>>
vars == <<delayedVars, pc, followVars, histVars>>

\* ----------------------------------------------------------- the host and React
\* pc is "idle" when no function of the hooks is on the stack.  A setState
\* called from a timer or a promise, on a root that does not batch it, renders
\* the component before it returns: "set" and "rendered" are the timer callback
\* inside line 32's setState, before and after such a render; "setFollow" and
\* "renderedFollow" are setStateAndFollow inside line 70's setState.
InCallback == pc \in {"set", "rendered"}
InSetStateAndFollow == pc \in {"setFollow", "renderedFollow"}
Rendered == pc \in {"rendered", "renderedFollow"}
AfterRender == IF InCallback THEN "rendered" ELSE "renderedFollow"

NoFrame == <<>>

\* React's setState(newState): the update replaces whatever the next render
\* would have shown; on an unmounted component it is dropped.
setState(queue, newState) == IF mounted THEN <<newState>> ELSE queue

clearTimeout(ts, id) == {tm \in ts : tm.id # id}

setTimeout(ts, id, newState, delay) ==
    ts \cup {[id |-> id, newState |-> newState, left |-> delay]}

\* The value the next render shows.
Value == IF stateQueue = <<>> THEN state ELSE stateQueue[1]
ImmValue == IF immediateQueue = <<>> THEN immediate ELSE immediateQueue[1]

\* The handle in timeoutRef when its timer is live, else NoTimer.
PendingId == IF \E tm \in timers : tm.id = timeoutRef THEN timeoutRef ELSE NoTimer

\* -------------------------------------------------------------- useDelayedState
\* delayMS === 0 || delayMS === undefined
IsImmediate(delayMS) == delayMS = <<>> \/ delayMS[1] = 0

\* cancelSetState, as the timers and the ref it leaves.
CancelResult ==
    IF timeoutRef # NoTimer
    THEN [timers |-> clearTimeout(timers, timeoutRef), timeoutRef |-> NoTimer]
    ELSE [timers |-> timers, timeoutRef |-> timeoutRef]

\* Mutant: a delayed request also applies the value at once.
SetStateAfterAppliesNow(newState, delayMS) ==
    LET c == CancelResult
    IN  IF IsImmediate(delayMS)
        THEN [timers |-> c.timers,
              timeoutRef |-> c.timeoutRef,
              stateQueue |-> setState(stateQueue, newState),
              nextId |-> nextId]
        ELSE [timers |-> setTimeout(c.timers, nextId, newState, delayMS[1]),
              timeoutRef |-> nextId,
              stateQueue |-> setState(stateQueue, newState),
              nextId |-> nextId + 1]

\* Mutant: a delayed request discards the update queued for the next render.
SetStateAfterDropsQueued(newState, delayMS) ==
    LET c == CancelResult
    IN  IF IsImmediate(delayMS)
        THEN [timers |-> c.timers,
              timeoutRef |-> c.timeoutRef,
              stateQueue |-> setState(stateQueue, newState),
              nextId |-> nextId]
        ELSE [timers |-> setTimeout(c.timers, nextId, newState, delayMS[1]),
              timeoutRef |-> nextId,
              stateQueue |-> <<>>,
              nextId |-> nextId + 1]

\* setStateAfter(newState, delayMS), as what it leaves: cancelSetState() first,
\* then either setState(newState) or a new timer whose handle goes to the ref.
SetStateAfterResult(newState, delayMS) ==
    LET c == CancelResult
    IN  IF IsImmediate(delayMS)
        THEN [timers |-> c.timers,
              timeoutRef |-> c.timeoutRef,
              stateQueue |-> setState(stateQueue, newState),
              nextId |-> nextId]
        ELSE [timers |-> setTimeout(c.timers, nextId, newState, delayMS[1]),
              timeoutRef |-> nextId,
              stateQueue |-> stateQueue,
              nextId |-> nextId + 1]

cancelSetState ==
    /\ timers' = CancelResult.timers
    /\ timeoutRef' = CancelResult.timeoutRef
    /\ UNCHANGED <<state, stateQueue, nextId, mounted>>

setStateAfter(newState, delayMS) ==
    LET r == SetStateAfterResult(newState, delayMS)
    IN  /\ timers' = r.timers
        /\ timeoutRef' = r.timeoutRef
        /\ stateQueue' = r.stateQueue
        /\ nextId' = r.nextId
        /\ UNCHANGED <<state, mounted>>

\* The host runs the callback handed to setTimeout, when the timer is due and
\* no live timer has been due for longer, and drops the one-shot timer; the
\* callback's first statement is setState(newState).
TimerCallback(tm) ==
    /\ pc = "idle"
    /\ tm \in timers
    /\ tm.left <= 0
    /\ \A other \in timers : other.left >= tm.left
    /\ timers' = timers \ {tm}
    /\ stateQueue' = setState(stateQueue, tm.newState)
    /\ pc' = "set"
    /\ UNCHANGED <<state, timeoutRef, nextId, mounted>>

\* Mutant: the callback ends without resetting the ref.
TimerCallbackEndKeepsRef == timeoutRef

\* The ref after the callback's second statement, timeoutRef.current = null.
TimerCallbackEndRef == NoTimer

\* The callback's second statement and its return.
TimerCallbackEnd ==
    /\ InCallback
    /\ timeoutRef' = TimerCallbackEndRef
    /\ pc' = "idle"
    /\ UNCHANGED <<state, stateQueue, timers, nextId, mounted>>

\* The timers the effect cleanup leaves: the ref's timer is cleared.
CleanupTimers == IF timeoutRef # NoTimer THEN clearTimeout(timers, timeoutRef) ELSE timers

\* The effect cleanup, run once when the component unmounts; the ref keeps its
\* handle.
Cleanup ==
    /\ mounted
    /\ mounted' = FALSE
    /\ timers' = CleanupTimers
    /\ UNCHANGED <<state, stateQueue, timeoutRef, nextId>>

\* A render of the component: the queued update is applied.
RenderDelayed ==
    /\ mounted
    /\ stateQueue # <<>>
    /\ state' = Value
    /\ stateQueue' = <<>>
    /\ UNCHANGED <<timeoutRef, timers, nextId, mounted>>

\* Time passes, by one unit: every live timer has one unit less to run.  A due
\* timer (left <= 0) stays live until the host runs its callback, at most
\* MaxLate late.
Tick ==
    /\ timers # {}
    /\ \A tm \in timers : tm.left > -MaxLate
    /\ timers' = {[tm EXCEPT !.left = @ - 1] : tm \in timers}
    /\ UNCHANGED <<state, stateQueue, timeoutRef, nextId, mounted>>

\* --------------------------------------------------------------- useFollowState
\* The values the latest render closed over.
Current == [state |-> immediate, followState |-> state]

setStateAndFollow(newState, delayMS) ==
    /\ immediateQueue' = setState(immediateQueue, newState)
    /\ setStateAfter(newState, delayMS)
    /\ UNCHANGED <<immediate, retained, frame>>

\* setStateAndFollow called outside React: its first statement,
\* setState(newState), inside which React may render the component.
setStateAndFollowSetState(newState, delayMS) ==
    /\ immediateQueue' = setState(immediateQueue, newState)
    /\ frame' = <<newState, delayMS>>
    /\ UNCHANGED <<delayedVars, immediate, retained>>

\* Its second statement, setFollowState(newState, delayMS), and its return.
setStateAndFollowSetFollowState ==
    /\ setStateAfter(frame[1], frame[2])
    /\ frame' = NoFrame
    /\ UNCHANGED <<immediate, immediateQueue, retained>>

\* revertStateToFollow as returned by the render that closed over c.state and
\* c.followState.
revertStateToFollow(c) ==
    /\ cancelSetState
    /\ immediateQueue' = IF c.state # c.followState
                         THEN setState(immediateQueue, c.followState)
                         ELSE immediateQueue
    /\ UNCHANGED <<immediate, retained, frame>>

\* A render of the component: both slots' queued updates are applied, and the
\* functions it returns close over the values it rendered.  A caller may keep
\* the functions of the render this one replaces.
RenderFollow ==
    /\ mounted
    /\ stateQueue # <<>> \/ immediateQueue # <<>>
    /\ state' = Value
    /\ immediate' = ImmValue
    /\ stateQueue' = <<>>
    /\ immediateQueue' = <<>>
    /\ retained' \in {retained, Current}
    /\ UNCHANGED <<timeoutRef, timers, nextId, mounted, frame>>

\* ------------------------------------------------------------------- history
Positive(delayMS) == delayMS # <<>> /\ delayMS[1] > 0

NoRequest == [id |-> NoTimer, nested |-> FALSE]
NoTeardown == [nextId |-> NoTimer]

\* The timer of the latest delayed request is live.
Following == arm.id # NoTimer /\ \E tm \in timers : tm.id = arm.id

\* A request for newState: a pending request it supersedes is banned, unless its
\* value was the value in place when it was made or is requested now.
BannedAfter(newState) ==
    (banned \ {newState}) \cup
    (IF Following /\ arm.v # arm.v0 /\ arm.v # newState THEN {arm.v} ELSE {})

\* <<a>> when the last call was an immediate setStateAfter(a) whose update is
\* still queued, else <<>>.
QueuedImmediate ==
    IF /\ lastEv.op = "setStateAfter"
       /\ ~lastEv.delayed
       /\ mounted
       /\ stateQueue = <<lastEv.v>>
    THEN <<lastEv.v>> ELSE <<>>

\* Whether the run of delayed setStateAndFollow calls this one continues began
\* with immediate == following and no timer pending.
FromSettled(op) ==
    /\ op = "setStateAndFollow"
    /\ IF Following THEN arm.settled0 ELSE ImmValue = Value /\ timers = {}

\* The handle a setStateAndFollow inside line 70 will need at line 71.
Reserved == IF frame # NoFrame /\ Positive(frame[2]) THEN 1 ELSE 0

RequestHistory(op, newState, delayMS, settled, nested) ==
    /\ lastEv' = [op |-> op, v |-> newState, delayed |-> Positive(delayMS),
                  can |-> PendingId # NoTimer, nested |-> nested]
    /\ arm' = IF Positive(delayMS)
              THEN [id |-> nextId, v |-> newState, v0 |-> Value, d |-> delayMS[1],
                    waited |-> 0, sup |-> IF Following THEN arm.id ELSE NoTimer,
                    after |-> QueuedImmediate, settled0 |-> settled,
                    nested |-> nested]
              ELSE NoRequest
    /\ UNCHANGED torn

CancelHistory(op) ==
    /\ lastEv' = [op |-> op, can |-> PendingId # NoTimer, value |-> Value,
                  chain |-> /\ op = "revertStateToFollow"
                            /\ Following
                            /\ arm.sup # NoTimer
                            /\ arm.settled0]
    /\ arm' = NoRequest
    /\ UNCHANGED <<torn, requested>>

\* ------------------------------------------------------------------- actions
\* The functions are called between renders (handlers, effects, timers) or by
\* the component as it renders; a setState made while rendering is queued.
Callable == pc = "idle" \/ Rendered

CallSetStateAfter ==
    \E newState \in Values, delayMS \in DelayArgs :
        /\ Callable
        /\ UNCHANGED pc
        /\ SetStateAfterResult(newState, delayMS).nextId <= MaxTimers + 1
        /\ setStateAfter(newState, delayMS)
        /\ UNCHANGED followVars
        /\ RequestHistory("setStateAfter", newState, delayMS, FALSE, FALSE)
        /\ banned' = BannedAfter(newState)
        /\ frozen' = {}
        /\ UNCHANGED requested

CallCancelSetState ==
    /\ Callable
    /\ UNCHANGED pc
    /\ cancelSetState
    /\ UNCHANGED followVars
    /\ CancelHistory("cancelSetState")
    /\ frozen' = IF Following THEN {arm.v0} ELSE frozen
    /\ UNCHANGED banned

TimerFire ==
    \E tm \in timers :
        /\ TimerCallback(tm)
        /\ UNCHANGED followVars
        /\ lastEv' = [op |-> "fire", id |-> tm.id, v |-> tm.newState,
                      req |-> IF arm.id = tm.id THEN arm ELSE NoRequest]
        /\ arm' = IF arm.id = tm.id THEN NoRequest ELSE arm
        /\ UNCHANGED <<torn, banned, frozen, requested>>

\* React renders the component inside the callback's setState (an update made
\* outside a React event handler, on a root that does not batch it), and again
\* when the component queued an update as it rendered.
SyncRender ==
    /\ InCallback
    /\ pc' = AfterRender
    /\ RenderDelayed
    /\ UNCHANGED <<followVars, histVars>>

TimerReturn ==
    /\ TimerCallbackEnd
    /\ UNCHANGED <<followVars, histVars>>

\* The component is removed between renders, or as React commits a render made
\* inside a setState.
Unmount ==
    /\ pc = "idle" \/ Rendered
    /\ UNCHANGED pc
    /\ Cleanup
    /\ UNCHANGED followVars
    /\ lastEv' = [op |-> "unmount", can |-> PendingId # NoTimer]
    /\ arm' = NoRequest
    /\ torn' = [value |-> Value, nextId |-> nextId]
    /\ UNCHANGED <<banned, frozen, requested>>

Render ==
    /\ pc = "idle"
    /\ UNCHANGED pc
    /\ RenderDelayed
    /\ UNCHANGED <<followVars, histVars>>

Advance ==
    /\ pc = "idle"
    /\ UNCHANGED pc
    /\ Tick
    /\ arm' = IF arm.id # NoTimer THEN [arm EXCEPT !.waited = @ + 1] ELSE arm
    /\ UNCHANGED <<followVars, lastEv, torn, banned, frozen, requested>>

\* setStateAndFollow where React batches its setState (a handler, an effect,
\* the component as it renders): both statements run before any render.
CallSetStateAndFollow ==
    \E newState \in Values, delayMS \in DelayArgs :
        /\ Callable
        /\ UNCHANGED pc
        /\ SetStateAfterResult(newState, delayMS).nextId + Reserved <= MaxTimers + 1
        /\ setStateAndFollow(newState, delayMS)
        /\ RequestHistory("setStateAndFollow", newState, delayMS,
                          FromSettled("setStateAndFollow"), FALSE)
        /\ requested' = newState
        /\ UNCHANGED <<banned, frozen>>

\* setStateAndFollow called from a timer or a promise: line 70.
EnterSetStateAndFollow ==
    \E newState \in Values, delayMS \in DelayArgs :
        /\ pc = "idle"
        /\ pc' = "setFollow"
        /\ SetStateAfterResult(newState, delayMS).nextId <= MaxTimers + 1
        /\ setStateAndFollowSetState(newState, delayMS)
        /\ lastEv' = [op |-> "setState", v |-> newState,
                      settled |-> FromSettled("setStateAndFollow")]
        /\ requested' = newState
        /\ UNCHANGED <<arm, torn, banned, frozen>>

\* Line 71 of that call, and its return.
ReturnSetStateAndFollow ==
    /\ InSetStateAndFollow
    /\ pc' = "idle"
    /\ setStateAndFollowSetFollowState
    /\ RequestHistory("setStateAndFollow", frame[1], frame[2],
                      lastEv.op = "setState" /\ lastEv.settled,
                      lastEv.op # "setState")
    /\ UNCHANGED <<banned, frozen, requested>>

CallRevertStateToFollow ==
    \E c \in {Current, retained} :
        /\ Callable
        /\ UNCHANGED pc
        /\ revertStateToFollow(c)
        /\ CancelHistory("revertStateToFollow")
        /\ UNCHANGED <<banned, frozen>>

RenderBoth ==
    /\ pc = "idle"
    /\ UNCHANGED pc
    /\ RenderFollow
    /\ UNCHANGED histVars

SyncRenderBoth ==
    /\ pc # "idle"
    /\ pc' = AfterRender
    /\ RenderFollow
    /\ UNCHANGED histVars

\* ------------------------------------------------------------ specifications
Init ==
    /\ state \in Values
    /\ stateQueue = <<>>
    /\ timeoutRef = NoTimer
    /\ timers = {}
    /\ nextId = 1
    /\ mounted = TRUE
    /\ pc = "idle"
    /\ immediate = state
    /\ immediateQueue = <<>>
    /\ retained = [state |-> state, followState |-> state]
    /\ frame = NoFrame
    /\ lastEv = [op |-> "init"]
    /\ arm = NoRequest
    /\ torn = NoTeardown
    /\ banned = {}
    /\ frozen = {}
    /\ requested = state

\* A component using useDelayedState.
Next ==
    \/ CallSetStateAfter
    \/ CallCancelSetState
    \/ TimerFire
    \/ SyncRender
    \/ TimerReturn
    \/ Render
    \/ Unmount
    \/ Advance

Spec == Init /\ [][Next]_vars

\* The same component with the history cut down to the last event and the
\* handle and value of the latest delayed request.
LiveCallSetStateAfter ==
    \E newState \in Values, delayMS \in DelayArgs :
        /\ Callable
        /\ UNCHANGED pc
        /\ SetStateAfterResult(newState, delayMS).nextId <= MaxTimers + 1
        /\ setStateAfter(newState, delayMS)
        /\ lastEv' = [op |-> "setStateAfter", delayed |-> Positive(delayMS)]
        /\ arm' = IF Positive(delayMS)
                  THEN [id |-> nextId, v |-> newState, nested |-> FALSE]
                  ELSE NoRequest
        /\ UNCHANGED <<followVars, torn, banned, frozen, requested>>

LiveCallCancelSetState ==
    /\ Callable
    /\ UNCHANGED pc
    /\ cancelSetState
    /\ lastEv' = [op |-> "cancelSetState"]
    /\ arm' = NoRequest
    /\ UNCHANGED <<followVars, torn, banned, frozen, requested>>

LiveAdvance ==
    /\ pc = "idle"
    /\ UNCHANGED pc
    /\ Tick
    /\ UNCHANGED <<followVars, histVars>>

LiveNext ==
    \/ LiveCallSetStateAfter
    \/ LiveCallCancelSetState
    \/ TimerFire
    \/ SyncRender
    \/ TimerReturn
    \/ Render
    \/ Unmount
    \/ LiveAdvance

\* On a host whose clock keeps running and whose event loop runs every timer
\* that is due, each callback to its end.  Calls, renders and the unmount stay
\* optional.
LiveSpec ==
    /\ Init
    /\ [][LiveNext]_vars
    /\ WF_vars(LiveAdvance)
    /\ WF_vars(TimerFire)
    /\ WF_vars(TimerReturn)

\* A component using useFollowState.
FollowNext ==
    \/ CallSetStateAndFollow
    \/ EnterSetStateAndFollow
    \/ ReturnSetStateAndFollow
    \/ CallRevertStateToFollow
    \/ TimerFire
    \/ SyncRenderBoth
    \/ TimerReturn
    \/ RenderBoth
    \/ Unmount
    \/ Advance

FollowSpec == Init /\ [][FollowNext]_vars

\* -------------------------------------------------------------------- claims
\* The last event was the callback of the timer of a request that superseded a
\* pending one.
SupersederFired ==
    /\ lastEv.op = "fire"
    /\ lastEv.req.id = lastEv.id
    /\ lastEv.req.sup # NoTimer

\* C1 (last write wins): once a later setStateAfter(v2, d2) supersedes a pending
\* setStateAfter(v1, d1), the value is never v1 (unless v1 is requested again,
\* was the value when it was requested, or is v2), and the value is v2 as soon
\* as the superseding call returns when d2 is 0 or absent, else as soon as its
\* timer has fired.
LastWriteWins ==
    /\ Value \notin banned
    /\ (mounted /\ lastEv.op = "setStateAfter" /\ lastEv.can /\ ~lastEv.delayed)
          => Value = lastEv.v
    /\ (mounted /\ SupersederFired) => Value = lastEv.req.v

\* C2 (revert semantics): after revertStateToFollow() cancelled a pending follow
\* update, the immediate value equals the following value, which is what it was
\* before the call, and no timer is left: the cancelled update is never applied.
RevertSettles ==
    (mounted /\ pc = "idle" /\ lastEv.op = "revertStateToFollow" /\ lastEv.can)
        => /\ ImmValue = Value
           /\ Value = lastEv.value
           /\ timers = {}
           /\ timeoutRef = NoTimer

\* C3 (divergence invariant): while the component is mounted and no timer is
\* pending, the immediate value equals the following value.
DivergenceNeedsTimer == (mounted /\ pc = "idle" /\ timers = {}) => ImmValue = Value

\* C4 (follow divergence, then convergence): after setStateAndFollow(v, d > 0)
\* the immediate value is v and the following value stays what it was for as
\* long as the timer is live; when the timer has fired the following value
\* is v, and a render that shows the new following value shows the immediate
\* value v too.
FollowDivergesThenConverges ==
    /\ (mounted /\ pc = "idle" /\ lastEv.op = "setStateAndFollow"
           /\ lastEv.delayed /\ ~lastEv.nested)
          => /\ ImmValue = lastEv.v
             /\ Value = arm.v0
             /\ Following
    /\ \A tm \in timers :
          (mounted /\ pc = "idle" /\ arm.id = tm.id /\ ~arm.nested)
              => /\ ImmValue = arm.v
                 /\ Value = arm.v0
                 /\ tm.newState = arm.v
    /\ (mounted /\ lastEv.op = "fire" /\ lastEv.req.id = lastEv.id
           /\ ~lastEv.req.nested)
          => /\ Value = lastEv.req.v
             /\ ImmValue = lastEv.req.v
             /\ stateQueue = <<>> => (state = lastEv.req.v /\ immediate = lastEv.req.v)

\* C5 (cancel is effective): after cancelSetState() following a
\* setStateAfter(v, d > 0) whose timer had not fired, and until the next
\* setStateAfter, the value is what it was before that request and no timer is
\* live, so its callback never runs.
CancelIsEffective == frozen # {} => (Value \in frozen /\ timers = {})

\* C6 (at most one live timer): the host never holds two live timers of one
\* instance.
AtMostOneTimer == Cardinality(timers) <= 1

\* C7 (teardown silences a pending update): once the cleanup has run, no timer
\* armed before it is live or has its callback run, and the value is what it
\* was when the cleanup ran.
TeardownSilences ==
    ~mounted
        => /\ \A tm \in timers : tm.id >= torn.nextId
           /\ lastEv.op = "fire" => lastEv.id >= torn.nextId
           /\ Value = torn.value

\* C8 (nothing happens after teardown): once the cleanup has run no timer is
\* live, no timer callback runs and the value does not change, whatever is
\* called afterwards.
NothingAfterTeardown ==
    ~mounted
        => /\ timers = {}
           /\ lastEv.op # "fire"
           /\ Value = torn.value

\* C9 (zero delay is no delay): in every state and for every value v,
\* setStateAfter(v, 0) and setStateAfter(v) leave the same state, with v applied,
\* no timer live and the ref reset.
ZeroDelayIsNoDelay ==
    \A v \in Values :
        LET zero == SetStateAfterResult(v, <<0>>)
            absent == SetStateAfterResult(v, <<>>)
        IN  /\ zero = absent
            /\ zero.timers = {}
            /\ zero.timeoutRef = NoTimer
            /\ zero.nextId = nextId
            /\ mounted => zero.stateQueue = <<v>>

\* C10 (a superseding delayed call restarts the full delay): while the timer of
\* a setStateAfter(v2, d2 > 0) that superseded a pending request is live, the
\* superseded timer is not live, the timer has d2 less the time waited left to
\* run and, until d2 has been waited, the value is what it was at the call; its
\* callback runs no sooner than d2 after the call, and then the value is v2.
DebounceRestart ==
    /\ \A tm \in timers :
          (arm.id = tm.id /\ arm.sup # NoTimer)
              => /\ tm.left > 0 => Value = arm.v0
                 /\ arm.waited + tm.left = arm.d
                 /\ \A other \in timers : other.id # arm.sup
    /\ SupersederFired
          => /\ lastEv.req.waited >= lastEv.req.d
             /\ mounted => Value = lastEv.req.v

\* C11 (immediate set, then delayed set, in one turn): after setStateAfter(a)
\* and, before any render, setStateAfter(b, d > 0), the value is a and the timer
\* for b is live with d less the time waited left to run, until the next call
\* or callback; when its callback has run the value is b.
ImmediateThenDelayed ==
    /\ (mounted /\ lastEv.op = "setStateAfter" /\ lastEv.delayed /\ arm.after # <<>>)
          => /\ Value = arm.after[1]
             /\ \E tm \in timers : /\ tm.id = arm.id
                                   /\ tm.newState = arm.v
                                   /\ tm.left + arm.waited = arm.d
    /\ (mounted /\ lastEv.op = "fire" /\ lastEv.req.id = lastEv.id
           /\ lastEv.req.after # <<>>)
          => Value = lastEv.req.v

ImmediateThenDelayedWitness ==
    /\ mounted
    /\ lastEv.op = "fire"
    /\ lastEv.req.id = lastEv.id
    /\ lastEv.req.after # <<>>
    /\ lastEv.req.after[1] # lastEv.req.v
    /\ lastEv.req.v0 = lastEv.req.after[1]
    /\ Value = lastEv.req.v

\* C12 (revert after a run of delayed sets): when several delayed
\* setStateAndFollow calls were made from a state with immediate == following
\* == p and no timer pending, and none of their timers had fired, a
\* revertStateToFollow() leaves immediate == following == p and no timer.
RevertAfterChain ==
    (mounted /\ pc = "idle" /\ lastEv.op = "revertStateToFollow" /\ lastEv.chain)
        => /\ ImmValue = lastEv.value
           /\ Value = lastEv.value
           /\ timers = {}

\* C13 (zero delay settles): after setStateAndFollow(v) or
\* setStateAndFollow(v, 0) on a mounted component, immediate == following == v,
\* no timer is pending and the marker is clear, whatever was pending before.
ZeroDelaySettles ==
    (mounted /\ pc = "idle" /\ lastEv.op = "setStateAndFollow"
        /\ ~lastEv.delayed /\ ~lastEv.nested)
        => /\ ImmValue = lastEv.v
           /\ Value = lastEv.v
           /\ timers = {}
           /\ timeoutRef = NoTimer

\* C14 (a delayed set is eventually applied): on a host that keeps running its
\* timers, a setStateAfter(v, d > 0) on a mounted component whose timer is live
\* leads to the callback of the latest delayed request having run to its end --
\* the value is the requested one and the marker is clear -- unless a
\* cancelSetState, an immediate setStateAfter or the unmount came after it (a
\* later delayed setStateAfter takes its place as the latest request); and a
\* timer that is armed does not stay armed forever.
TimerApplied ==
    /\ mounted
    /\ pc = "idle"
    /\ lastEv.op = "fire"
    /\ lastEv.req.id = lastEv.id
    /\ lastEv.v = lastEv.req.v
    /\ Value = lastEv.v
    /\ timeoutRef = NoTimer

TimerInterrupted ==
    /\ ~Following
    /\ \/ lastEv.op \in {"cancelSetState", "unmount"}
       \/ lastEv.op = "setStateAfter" /\ ~lastEv.delayed

DelayedEventuallyApplied ==
    /\ (mounted /\ Following) ~> (TimerApplied \/ TimerInterrupted)
    /\ (timers # {}) ~> (timers = {})

DelayedAppliedWitness ==
    /\ TimerApplied
    /\ stateQueue = <<>>
    /\ state = lastEv.v
    /\ timers = {}
    /\ nextId = MaxTimers + 1

\* C15 (frame): the value changes only in a step that is a setStateAfter call
\* with delay 0 or omitted, or a timer callback; a cancelSetState, the unmount
\* and a setStateAfter call with a positive delay leave it as it was.
ImmediateCall ==
    \E newState \in Values, delayMS \in DelayArgs :
        /\ IsImmediate(delayMS)
        /\ setStateAfter(newState, delayMS)
        /\ lastEv'.op = "setStateAfter"

DelayedCall ==
    \E newState \in Values, delayMS \in DelayArgs :
        /\ ~IsImmediate(delayMS)
        /\ setStateAfter(newState, delayMS)
        /\ lastEv'.op = "setStateAfter"

ValueFrame ==
    [][ Value' # Value
           => /\ ImmediateCall \/ TimerFire
              /\ ~(CallCancelSetState \/ Unmount \/ DelayedCall) ]_vars

ValueFrameWitness ==
    /\ mounted
    /\ lastEv.op = "cancelSetState"
    /\ lastEv.can
    /\ stateQueue # <<>>
    /\ Value = lastEv.value

\* C16 (revert leaves the following value alone): a revertStateToFollow() step
\* never changes the following value, and it writes the immediate value only
\* when the immediate value differs from the following value.
RevertFrame ==
    [][ CallRevertStateToFollow
           => /\ Value' = Value
              /\ immediateQueue' # immediateQueue => ImmValue # Value ]_vars

\* C17 (a firing timer settles the pair): when a timer's callback has run to
\* its end on a mounted component, it was the timer of the most recent
\* setStateAndFollow call, the following value is that call's value, the
\* immediate value equals it, and no timer is left.
TimerSettles ==
    (mounted /\ pc = "idle" /\ lastEv.op = "fire" /\ ~lastEv.req.nested)
        => /\ lastEv.req.id = lastEv.id
           /\ lastEv.v = lastEv.req.v
           /\ Value = lastEv.v
           /\ ImmValue = lastEv.v
           /\ timers = {}
           /\ timeoutRef = NoTimer

\* C18 (marker/timer consistency): between callbacks, timeoutRef holds a handle
\* exactly when one timer of the instance is armed, and that timer is the one
\* it names.
MarkerConsistent ==
    pc = "idle"
        => /\ timeoutRef # NoTimer <=> Cardinality(timers) = 1
           /\ \A tm \in timers : tm.id = timeoutRef

\* C19 (the immediate value is never stale): the immediate value is the value
\* of the most recent setStateAndFollow call (the initial value when there was
\* none) or the current following value, whichever render's functions are
\* called, on a mounted component.
ImmediateNeverStale == (mounted /\ pc = "idle") => ImmValue \in {requested, Value}

\* C20 (revert is idempotent, and a no-op when settled): a revertStateToFollow()
\* call that directly follows another one, with or without a render in
\* between, changes nothing; and a call made when immediate == following and no
\* timer is pending changes nothing, on a mounted component.
RevertIdempotent ==
    [][ (mounted /\ CallRevertStateToFollow)
           => /\ lastEv.op = "revertStateToFollow"
                    => UNCHANGED <<delayedVars, followVars>>
              /\ (ImmValue = Value /\ timers = {})
                    => UNCHANGED <<delayedVars, followVars>> ]_vars

====
